---- MODULE Spec2Model ----
(***************************************************************************)
(* GPJax: the Parameter Store helpers of gpjax/utils.py, the composition   *)
(* of a Prior with a likelihood (gpjax/gps.py) and the initialise/complete *)
(* dispatch of gpjax/parameters/base.py.                                   *)
(*                                                                         *)
(* A Python dict is a sequence of items [k, v] with pairwise distinct keys *)
(* in insertion order.  A key is a Python str, written as the sequence of  *)
(* its code points, so that sorting compares keys as Python does.  Dicts   *)
(* are objects: heap[i] is the content of object i, and a call returns the *)
(* id of an object, so that mutation and aliasing are visible.             *)
(***************************************************************************)
EXTENDS Integers, Sequences, FiniteSets, TLC

VARIABLES
    heap,   \* heap[i]: the items of dict object i
    store,  \* id of the dict the caller holds as its Parameter Store
    arg,    \* id of the other dict the caller holds (an operand)
    gp,     \* the posterior the caller holds, or NoGP
    last    \* the last call: its arguments, the heap before it, its outcome

vars == <<heap, store, arg, gp, last>>

---------------------------------------------------------------------------
(* Bounds *)

\* longest dict literal a caller writes
MaxLen == 2

\* largest number of training observations
MaxNData == 2

---------------------------------------------------------------------------
(* Keys and values *)

\* "a", "ab", "b" as code points
KeyA == <<97>>
KeyAB == <<97, 98>>
KeyB == <<98>>
Keys == {KeyA, KeyAB, KeyB}

\* a Python number: a 0-d value
Num(n) == [shape |-> <<>>, data |-> <<n>>]

Vals == {Num(1), Num(2)}

Item(k, v) == [k |-> k, v |-> v]

\* every dict of at most n items with keys in K and values in V
DictsOver(K, V, n) ==
    UNION {{d \in [1..m -> [k : K, v : V]] :
               \A i, j \in 1..m : i # j => d[i].k # d[j].k} : m \in 0..n}

Literals == DictsOver(Keys, Vals, MaxLen)

\* "latent" as code points: the reserved key of the latent process
Latent == <<108, 97, 116, 101, 110, 116>>

\* the partial parameter sets a caller passes to complete
PartialParams == DictsOver(Keys \cup {Latent}, Vals, MaxLen)

EmptyDict == <<>>

---------------------------------------------------------------------------
(* Python's dict and str primitives *)

\* str.__lt__: lexicographic on code points, a proper prefix is smaller
RECURSIVE StrLess(_, _)
StrLess(s, t) ==
    IF t = <<>> THEN FALSE
    ELSE IF s = <<>> THEN TRUE
    ELSE IF Head(s) # Head(t) THEN Head(s) < Head(t)
    ELSE StrLess(Tail(s), Tail(t))

\* list(d.keys())
KeySeq(d) == [i \in 1..Len(d) |-> d[i].k]

\* set(d.keys())
KeySet(d) == {d[i].k : i \in 1..Len(d)}

\* k in d
HasKey(d, k) == \E i \in 1..Len(d) : d[i].k = k

\* d[k]
DictGet(d, k) == d[CHOOSE i \in 1..Len(d) : d[i].k = k].v

\* d[k] = v: an existing key keeps its position, a new key goes last
DictSetItem(d, k, v) ==
    IF HasKey(d, k)
    THEN [i \in 1..Len(d) |-> IF d[i].k = k THEN Item(k, v) ELSE d[i]]
    ELSE Append(d, Item(k, v))

\* d.update(items), the unpacking **items of a dict display
RECURSIVE DictUpdate(_, _)
DictUpdate(d, items) ==
    IF items = <<>> THEN d
    ELSE DictUpdate(DictSetItem(d, Head(items).k, Head(items).v), Tail(items))

\* one step of sorted(): item placed after every item that is not greater
RECURSIVE InsertSorted(_, _)
InsertSorted(item, s) ==
    IF s = <<>> THEN <<item>>
    ELSE IF StrLess(item.k, Head(s).k) THEN <<item>> \o s
    ELSE <<Head(s)>> \o InsertSorted(item, Tail(s))

\* sorted(d.items()): a stable sort of (key, value) tuples; keys are
\* distinct, so the values are never compared
RECURSIVE sorted(_)
sorted(items) ==
    IF items = <<>> THEN <<>>
    ELSE InsertSorted(items[Len(items)], sorted(SubSeq(items, 1, Len(items) - 1)))

\* the outcome of a call: the heap after it, the object returned
Returned(H, id) == [heap |-> H, ret |-> id, raised |-> "none"]

\* the outcome of a call that raises: nothing is returned
Raised(H, exc) == [heap |-> H, ret |-> 0, raised |-> exc]

\* a new dict object
Alloc(H, d) == Returned(Append(H, d), Len(H) + 1)

---------------------------------------------------------------------------
(* gpjax/utils.py *)

\* {**b, **a}: the operands swapped
concat_dictionaries_swapped(H, a, b) ==
    Alloc(H, DictUpdate(DictUpdate(EmptyDict, H[b]), H[a]))

\* {**a, **b}
concat_dictionaries(H, a, b) ==
    Alloc(H, DictUpdate(DictUpdate(EmptyDict, H[a]), H[b]))

\* the loop of merge_dictionaries from the i-th item of base_dict on
RECURSIVE MergeLoop(_, _, _, _)
MergeLoop(H, base_dict, in_dict, i) ==
    IF i > Len(H[base_dict]) THEN H
    ELSE LET k == H[base_dict][i].k
         IN  IF HasKey(H[in_dict], k)
             THEN MergeLoop([H EXCEPT ![base_dict] =
                                 DictSetItem(H[base_dict], k, DictGet(H[in_dict], k))],
                            base_dict, in_dict, i + 1)
             ELSE MergeLoop(H, base_dict, in_dict, i + 1)

\* base_dict.update(in_dict): the keys of in_dict are added too
merge_dictionaries_update(H, base_dict, in_dict) ==
    Returned([H EXCEPT ![base_dict] = DictUpdate(H[base_dict], H[in_dict])], base_dict)

merge_dictionaries(H, base_dict, in_dict) ==
    Returned(MergeLoop(H, base_dict, in_dict, 1), base_dict)

\* dict(base_dict.items()): a copy in the order of base_dict
sort_dictionary_unsorted(H, base_dict) == Alloc(H, H[base_dict])

\* dict(sorted(base_dict.items()))
sort_dictionary(H, base_dict) == Alloc(H, sorted(H[base_dict]))

\* add_parameter returning expanded_dict as it is
add_parameter_unsorted(H, base_dict, key_value) ==
    LET copied == Alloc(H, H[base_dict])
    IN  Returned([copied.heap EXCEPT ![copied.ret] =
                      DictSetItem(copied.heap[copied.ret], key_value.k, key_value.v)],
                 copied.ret)

\* deepcopy, one assignment, sort_dictionary
add_parameter(H, base_dict, key_value) ==
    LET copied == Alloc(H, H[base_dict])
        expanded == [copied.heap EXCEPT ![copied.ret] =
                         DictSetItem(copied.heap[copied.ret], key_value.k, key_value.v)]
    IN  sort_dictionary(expanded, copied.ret)

---------------------------------------------------------------------------
(* The collaborators of gps.py and parameters/base.py: kernels, mean       *)
(* functions and likelihoods, each with the parameters its own initialise  *)
(* contributes.                                                            *)

\* what one sub-model contributes: at most one parameter, initial value 1
ComponentParams == DictsOver(Keys, {Num(1)}, 1)

Kernels == [spectral : BOOLEAN, params : ComponentParams]

MeanFunctions == [params : ComponentParams]

\* the likelihoods the dispatch of Prior.__mul__ knows
NonConjugateLikelihoods == {"Bernoulli"}

\* Gaussian, a non-conjugate likelihood, and an object that is no likelihood
Likelihoods == [kind : {"Gaussian", "Bernoulli", "Unregistered"}, params : ComponentParams]

\* random seeds (jax.random.PRNGKey)
Seeds == {1, 2}

\* a Python argument by type; Absent: the argument is not passed
PyArg(type, val) == [type |-> type, val |-> val]
Absent == PyArg("absent", 0)
None == PyArg("NoneType", 0)
PyInt(n) == PyArg("int", n)
JaxKey(s) == PyArg("DeviceArray", s)

KeyArgs == {Absent} \cup {JaxKey(s) : s \in Seeds}
NDataArgs == {Absent, None} \cup {PyInt(n) : n \in 0..MaxNData}

\* initialise(mean_function)
initialise_meanf(H, meanf) == Alloc(H, meanf.params)

\* initialise(likelihood)
initialise_likelihood(H, likelihood) == Alloc(H, likelihood.params)

\* initialise(kernel): only a deterministic kernel has a seedless initialiser
initialise_kernel(H, kernel) ==
    IF kernel.spectral THEN Raised(H, "NotImplementedError")
    ELSE Alloc(H, kernel.params)

\* initialise(key, kernel): only a spectral kernel draws its parameters
initialise_key_kernel(H, key, kernel) ==
    IF kernel.spectral
    THEN Alloc(H, [i \in 1..Len(kernel.params) |->
                      Item(kernel.params[i].k, Num(key.val))])
    ELSE Raised(H, "NotImplementedError")

---------------------------------------------------------------------------
(* gpjax/gps.py *)

Prior(kernel, mean_function) ==
    [kernel |-> kernel, mean_function |-> mean_function, name |-> "Prior"]

ConjugatePosterior(prior, likelihood) ==
    [variant |-> "ConjugatePosterior", prior |-> prior, likelihood |-> likelihood,
     name |-> "ConjugatePosterior"]

NonConjugatePosterior(prior, likelihood) ==
    [variant |-> "NonConjugatePosterior", prior |-> prior, likelihood |-> likelihood,
     name |-> "Non-conjugatePosterior"]

SpectralPosterior(prior, likelihood) ==
    [variant |-> "SpectralPosterior", prior |-> prior, likelihood |-> likelihood,
     name |-> "SpectralPosterior"]

NoGP == [variant |-> "none"]

Composed(post) == [post |-> post, raised |-> "none"]

\* Prior.__mul__ with the kernel test left out
Prior_mul_no_kernel_test(self, other) ==
    IF other.kind = "Gaussian"
    THEN Composed(ConjugatePosterior(self, other))
    ELSE IF other.kind \in NonConjugateLikelihoods
    THEN Composed(NonConjugatePosterior(self, other))
    ELSE [post |-> NoGP, raised |-> "NotImplementedError"]

\* Prior.__mul__: dispatch on the type of other
Prior_mul(self, other) ==
    IF other.kind = "Gaussian"
    THEN IF self.kernel.spectral
         THEN Composed(SpectralPosterior(self, other))
         ELSE Composed(ConjugatePosterior(self, other))
    ELSE IF other.kind \in NonConjugateLikelihoods
    THEN Composed(NonConjugatePosterior(self, other))
    ELSE [post |-> NoGP, raised |-> "NotImplementedError"]

---------------------------------------------------------------------------
(* gpjax/parameters/base.py *)

\* a row vector instead of a column
zeros_transposed(n) == [shape |-> <<1, n>>, data |-> [i \in 1..n |-> 0]]

\* jnp.zeros(shape=(n, 1))
zeros(n) == [shape |-> <<n, 1>>, data |-> [i \in 1..n |-> 0]]

\* initialise(key, gp) for a conjugate or spectral posterior
initialise_key_gp(H, key, g) ==
    LET meanf == initialise_meanf(H, g.prior.mean_function)
        drawn == initialise_key_kernel(meanf.heap, key, g.prior.kernel)
    IN  IF drawn.raised # "none" THEN drawn
        ELSE LET kernel == concat_dictionaries(drawn.heap, drawn.ret, meanf.ret)
                 lik == initialise_likelihood(kernel.heap, g.likelihood)
                 all_params == concat_dictionaries(lik.heap, kernel.ret, lik.ret)
             IN  sort_dictionary(all_params.heap, all_params.ret)

_initialise_hyperparams(H, kernel, meanf) ==
    LET k == initialise_kernel(H, kernel)
    IN  IF k.raised # "none" THEN k
        ELSE LET m == initialise_meanf(k.heap, meanf)
             IN  concat_dictionaries(m.heap, k.ret, m.ret)

\* initialise(gp) with the likelihood's parameters left out
initialise_gp_no_likelihood(H, g) ==
    LET hyps == _initialise_hyperparams(H, g.prior.kernel, g.prior.mean_function)
    IN  IF hyps.raised # "none" THEN hyps
        ELSE sort_dictionary(hyps.heap, hyps.ret)

\* initialise(gp) for a conjugate or spectral posterior
initialise_gp(H, g) ==
    LET hyps == _initialise_hyperparams(H, g.prior.kernel, g.prior.mean_function)
    IN  IF hyps.raised # "none" THEN hyps
        ELSE LET lik == initialise_likelihood(hyps.heap, g.likelihood)
                 all_params == concat_dictionaries(lik.heap, hyps.ret, lik.ret)
             IN  sort_dictionary(all_params.heap, all_params.ret)

\* initialise(gp, n_data) for a conjugate or spectral posterior
initialise_gp_n_data(H, g, n_data) ==
    LET inner == initialise_gp(H, g)
    IN  IF inner.raised # "none" THEN inner
        ELSE sort_dictionary(inner.heap, inner.ret)

\* initialise(gp, n_data) for a non-conjugate posterior
initialise_nonconjugate(H, g, n_data) ==
    LET hyperparams == _initialise_hyperparams(H, g.prior.kernel, g.prior.mean_function)
    IN  IF hyperparams.raised # "none" THEN hyperparams
        ELSE LET lik == initialise_likelihood(hyperparams.heap, g.likelihood)
                 likelihood == concat_dictionaries(lik.heap, hyperparams.ret, lik.ret)
                 latent_process == Alloc(likelihood.heap, <<Item(Latent, zeros(n_data.val))>>)
                 both == concat_dictionaries(latent_process.heap, likelihood.ret,
                                             latent_process.ret)
             IN  sort_dictionary(both.heap, both.ret)

IsConjugateOrSpectral(g) == g.variant \in {"ConjugatePosterior", "SpectralPosterior"}

\* the dispatch with the non-conjugate form registered for any n_data
initialise_any_n_data(H, key, g, n_data) ==
    IF key.type = "DeviceArray" /\ n_data = Absent /\ IsConjugateOrSpectral(g)
    THEN initialise_key_gp(H, key, g)
    ELSE IF key = Absent /\ n_data = Absent /\ IsConjugateOrSpectral(g)
    THEN initialise_gp(H, g)
    ELSE IF key = Absent /\ n_data # Absent /\ IsConjugateOrSpectral(g)
    THEN initialise_gp_n_data(H, g, n_data)
    ELSE IF key = Absent /\ n_data # Absent /\ g.variant = "NonConjugatePosterior"
    THEN initialise_nonconjugate(H, g, n_data)
    ELSE Raised(H, "NotImplementedError")

\* the dispatch of initialise on the types of the arguments passed
initialise(H, key, g, n_data) ==
    IF key.type = "DeviceArray" /\ n_data = Absent /\ IsConjugateOrSpectral(g)
    THEN initialise_key_gp(H, key, g)
    ELSE IF key = Absent /\ n_data = Absent /\ IsConjugateOrSpectral(g)
    THEN initialise_gp(H, g)
    ELSE IF key = Absent /\ n_data # Absent /\ IsConjugateOrSpectral(g)
    THEN initialise_gp_n_data(H, g, n_data)
    ELSE IF key = Absent /\ n_data.type = "int" /\ g.variant = "NonConjugatePosterior"
    THEN initialise_nonconjugate(H, g, n_data)
    ELSE Raised(H, "NotImplementedError")

\* complete with concat_dictionaries in place of merge_dictionaries
complete_concat(H, params, g, n_data) ==
    LET full_param_set == initialise(H, Absent, g, n_data)
    IN  IF full_param_set.raised # "none" THEN full_param_set
        ELSE LET merged == concat_dictionaries(full_param_set.heap, full_param_set.ret, params)
             IN  sort_dictionary(merged.heap, merged.ret)

\* complete(params, gp, n_data=None)
complete(H, params, g, n_data) ==
    LET full_param_set == initialise(H, Absent, g, n_data)
    IN  IF full_param_set.raised # "none" THEN full_param_set
        ELSE LET merged == merge_dictionaries(full_param_set.heap, full_param_set.ret, params)
             IN  sort_dictionary(merged.heap, merged.ret)

---------------------------------------------------------------------------
(* The caller *)

NoItem == Item(<<>>, Num(0))

NoPrior == Prior([spectral |-> FALSE, params |-> EmptyDict], [params |-> EmptyDict])

NoLikelihood == [kind |-> "none", params |-> EmptyDict]

\* the record of a call
CallRecord(op, args, pre, r, item, prior, likelihood, key, n_data) ==
    [op |-> op, args |-> args, pre |-> pre, ret |-> r.ret, raised |-> r.raised,
     item |-> item, prior |-> prior, likelihood |-> likelihood,
     key |-> key, n_data |-> n_data]

\* the record of a call of a Parameter Store helper
Call(op, args, pre, r, item) ==
    CallRecord(op, args, pre, r, item, NoPrior, NoLikelihood, Absent, Absent)

NoCall == Call("none", <<>>, <<>>, Returned(<<>>, 0), NoItem)

\* the objects the caller still refers to: the store first, then the operand
Live == IF store = arg THEN <<heap[store]>> ELSE <<heap[store], heap[arg]>>
LiveStore == 1
LiveArg == IF store = arg THEN 1 ELSE 2
LiveRefs == {LiveStore, LiveArg}

Init ==
    /\ heap = <<EmptyDict, EmptyDict>>
    /\ store = 1
    /\ arg = 2
    /\ gp = NoGP
    /\ last = NoCall

\* the caller writes a dict literal and keeps it as its operand
Literal(d) ==
    /\ heap' = <<heap[store], d>>
    /\ store' = 1
    /\ arg' = 2
    /\ last' = Call("literal", <<>>, <<>>, Returned(<<>>, 2), NoItem)
    /\ UNCHANGED gp

\* the caller binds the returned dict as its store
Bind(op, args, r, item) ==
    /\ heap' = r.heap
    /\ store' = r.ret
    /\ arg' = LiveArg
    /\ last' = Call(op, args, Live, r, item)
    /\ UNCHANGED gp

Concat(x, y) == Bind("concat_dictionaries", <<x, y>>, concat_dictionaries(Live, x, y), NoItem)

Merge(x, y) == Bind("merge_dictionaries", <<x, y>>, merge_dictionaries(Live, x, y), NoItem)

Sort == Bind("sort_dictionary", <<LiveStore>>, sort_dictionary(Live, LiveStore), NoItem)

AddParameter(k, v) ==
    Bind("add_parameter", <<LiveStore>>, add_parameter(Live, LiveStore, Item(k, v)),
         Item(k, v))

Next ==
    \/ \E d \in Literals : Literal(d)
    \/ \E x, y \in LiveRefs : Concat(x, y)
    \/ \E x, y \in LiveRefs : Merge(x, y)
    \/ Sort
    \/ \E k \in Keys, v \in Vals : AddParameter(k, v)

Spec == Init /\ [][Next]_vars

---------------------------------------------------------------------------
(* The caller of the model algebra: it composes one posterior, then makes  *)
(* one call of initialise or complete on it.  Neither call changes the     *)
(* posterior or reads anything but its arguments.                          *)

Compose(kernel, meanf, likelihood) ==
    /\ last.op = "none"
    /\ LET r == Prior_mul(Prior(kernel, meanf), likelihood)
       IN  /\ gp' = r.post
           /\ last' = CallRecord("__mul__", <<>>, <<>>, Raised(<<>>, r.raised), NoItem,
                                 Prior(kernel, meanf), likelihood, Absent, Absent)
    /\ UNCHANGED <<heap, store, arg>>

Initialise(key, n_data) ==
    /\ last.op = "__mul__"
    /\ gp.variant # "none"
    /\ LET r == initialise(<<>>, key, gp, n_data)
       IN  /\ heap' = r.heap
           /\ store' = r.ret
           /\ arg' = 0
           /\ last' = CallRecord("initialise", <<>>, <<>>, r, NoItem,
                                 gp.prior, gp.likelihood, key, n_data)
    /\ UNCHANGED gp

Complete(params, n_data) ==
    /\ last.op = "__mul__"
    /\ gp.variant # "none"
    /\ LET r == complete(<<params>>, 1, gp, n_data)
       IN  /\ heap' = r.heap
           /\ store' = r.ret
           /\ arg' = 1
           /\ last' = CallRecord("complete", <<1>>, <<params>>, r, NoItem,
                                 gp.prior, gp.likelihood, Absent, n_data)
    /\ UNCHANGED gp

NextGP ==
    \/ \E kernel \in Kernels, meanf \in MeanFunctions, likelihood \in Likelihoods :
           Compose(kernel, meanf, likelihood)
    \/ \E key \in KeyArgs, n_data \in NDataArgs : Initialise(key, n_data)
    \/ \E params \in PartialParams, n_data \in NDataArgs \ {Absent} :
           Complete(params, n_data)

SpecGP == Init /\ [][NextGP]_vars

---------------------------------------------------------------------------
(* Properties *)

\* the keys of d iterate in strictly ascending order
IsAscending(d) == \A i, j \in 1..Len(d) : i < j => StrLess(d[i].k, d[j].k)

\* the (key, value) pairs of d
ItemSet(d) == {d[i] : i \in 1..Len(d)}

\* the objects passed to the last call
ArgIds == {last.args[i] : i \in 1..Len(last.args)}

HelperOps == {"concat_dictionaries", "merge_dictionaries", "sort_dictionary", "add_parameter"}

\* C2: a Parameter Store helper leaves every argument dict as it was and
\* returns an object that is none of its arguments
C2_CopyOnWrite ==
    last.op \in HelperOps =>
        /\ \A i \in 1..Len(last.pre) : heap[i] = last.pre[i]
        /\ last.ret \notin ArgIds

\* C3: merge_dictionaries(base, override) returns base's keys in base's
\* order; a key of override carries override's value, any other key base's
\* value, and no key that is only in override appears
C3_Merge ==
    last.op = "merge_dictionaries" =>
        LET base == last.pre[last.args[1]]
            override == last.pre[last.args[2]]
            res == heap[last.ret]
        IN  /\ KeySeq(res) = KeySeq(base)
            /\ \A i \in 1..Len(res) :
                   res[i].v = IF res[i].k \in KeySet(override)
                              THEN DictGet(override, res[i].k)
                              ELSE base[i].v
            /\ \A k \in KeySet(override) \ KeySet(base) : k \notin KeySet(res)

\* C3: a merge where override replaces a value, base keeps a key of its own
\* and override has a key that base has not
C3_Witness ==
    /\ last.op = "merge_dictionaries"
    /\ LET base == last.pre[last.args[1]]
           override == last.pre[last.args[2]]
       IN  /\ \E k \in KeySet(base) \cap KeySet(override) :
                  DictGet(base, k) # DictGet(override, k)
           /\ KeySet(base) \ KeySet(override) # {}
           /\ KeySet(override) \ KeySet(base) # {}

\* C8 as stated: after concat_dictionaries, merge_dictionaries or
\* add_parameter on dicts that are themselves in ascending key order, the
\* returned store iterates its keys in ascending order
C8_AlwaysAscending ==
    (/\ last.op \in {"concat_dictionaries", "merge_dictionaries", "add_parameter"}
     /\ \A i \in 1..Len(last.pre) : IsAscending(last.pre[i]))
        => IsAscending(heap[last.ret])

\* C8 as amended: add_parameter and sort_dictionary return a store in
\* ascending key order whatever the order of their argument, and
\* merge_dictionaries returns one whenever its base is in ascending order
C8_AscendingAfterSort ==
    /\ last.op \in {"add_parameter", "sort_dictionary"} => IsAscending(heap[last.ret])
    /\ (last.op = "merge_dictionaries" /\ IsAscending(last.pre[last.args[1]]))
           => IsAscending(heap[last.ret])

\* C8: add_parameter on a store that was not in ascending order, with a key
\* that is smaller than the store's last key
C8_Witness ==
    /\ last.op = "add_parameter"
    /\ LET d == last.pre[last.args[1]]
       IN  /\ ~IsAscending(d)
           /\ ~HasKey(d, last.item.k)
           /\ StrLess(last.item.k, d[Len(d)].k)

\* C9: concat_dictionaries(d1, d2) has the union of the keys, in the order
\* keys(d1) followed by keys(d2) (a key of both keeps its place in d1), and
\* d2's value for every key of d2
C9_Concat ==
    last.op = "concat_dictionaries" =>
        LET d1 == last.pre[last.args[1]]
            d2 == last.pre[last.args[2]]
            res == heap[last.ret]
            NewKey(k) == k \notin KeySet(d1)
        IN  /\ KeySet(res) = KeySet(d1) \cup KeySet(d2)
            /\ KeySeq(res) = KeySeq(d1) \o SelectSeq(KeySeq(d2), NewKey)
            /\ \A i \in 1..Len(res) :
                   res[i].v = IF res[i].k \in KeySet(d2)
                              THEN DictGet(d2, res[i].k)
                              ELSE DictGet(d1, res[i].k)

\* C9: a concatenation where d2 overrides a value of d1, d1 has a key of its
\* own and d2 brings a new key
C9_Witness ==
    /\ last.op = "concat_dictionaries"
    /\ LET d1 == last.pre[last.args[1]]
           d2 == last.pre[last.args[2]]
       IN  /\ \E k \in KeySet(d1) \cap KeySet(d2) : DictGet(d1, k) # DictGet(d2, k)
           /\ KeySet(d1) \ KeySet(d2) # {}
           /\ KeySet(d2) \ KeySet(d1) # {}

\* C10: sort_dictionary(d) has the pairs of d in ascending key order, and
\* sorting its result again returns the same pairs in the same order
C10_Sort ==
    last.op = "sort_dictionary" =>
        LET d == last.pre[last.args[1]]
            res == heap[last.ret]
            again == sort_dictionary(heap, last.ret)
        IN  /\ ItemSet(res) = ItemSet(d)
            /\ Len(res) = Len(d)
            /\ IsAscending(res)
            /\ again.heap[again.ret] = res

\* C10: sort_dictionary on three keys held in descending order
C10_Witness ==
    /\ last.op = "sort_dictionary"
    /\ KeySeq(last.pre[last.args[1]]) = <<KeyB, KeyAB, KeyA>>

\* the outcome of the last call of initialise or complete
Result == heap[last.ret]

\* the keys the three sub-models of the posterior contribute
ComponentKeys(g) ==
    KeySet(g.prior.kernel.params) \cup KeySet(g.prior.mean_function.params)
        \cup KeySet(g.likelihood.params)

\* C1: a Gaussian likelihood gives a SpectralPosterior on a spectral kernel
\* and a ConjugatePosterior on any other kernel, a non-conjugate likelihood
\* gives a NonConjugatePosterior on every kernel, and a posterior that is
\* returned is one of these three and holds the given prior and likelihood
C1_Compose ==
    last.op = "__mul__" =>
        /\ (last.likelihood.kind = "Gaussian" /\ last.prior.kernel.spectral)
               => gp.variant = "SpectralPosterior"
        /\ (last.likelihood.kind = "Gaussian" /\ ~last.prior.kernel.spectral)
               => gp.variant = "ConjugatePosterior"
        /\ last.likelihood.kind \in NonConjugateLikelihoods
               => gp.variant = "NonConjugatePosterior"
        /\ gp.variant # "none" =>
               /\ gp.variant \in {"SpectralPosterior", "ConjugatePosterior",
                                  "NonConjugatePosterior"}
               /\ gp.prior = last.prior
               /\ gp.likelihood = last.likelihood
               /\ last.raised = "none"

\* C1: a Gaussian likelihood composed with a prior on a spectral kernel
C1_Witness ==
    /\ last.op = "__mul__"
    /\ last.likelihood.kind = "Gaussian"
    /\ last.prior.kernel.spectral
    /\ gp.variant = "SpectralPosterior"

\* C4: where initialise(model, n_data) succeeds, complete(p, model, n_data)
\* returns the keys of initialise(model, n_data) in ascending order; a key of
\* p carries p's value, any other key its initial value, and a key of p
\* that is not initialised is not added and raises nothing
C4_Complete ==
    last.op = "complete" =>
        LET p == last.pre[1]
            init == initialise(<<>>, Absent, gp, last.n_data)
        IN  init.raised = "none" =>
                /\ last.raised = "none"
                /\ KeySet(Result) = KeySet(init.heap[init.ret])
                /\ IsAscending(Result)
                /\ \A i \in 1..Len(Result) :
                       Result[i].v = IF Result[i].k \in KeySet(p)
                                     THEN DictGet(p, Result[i].k)
                                     ELSE DictGet(init.heap[init.ret], Result[i].k)

\* C4: complete with an override that replaces an initial value and names a
\* key that is not initialised, on a model with a key the override leaves
C4_Witness ==
    /\ last.op = "complete"
    /\ last.raised = "none"
    /\ LET p == last.pre[1]
           init == initialise(<<>>, Absent, gp, last.n_data)
       IN  /\ \E k \in KeySet(p) \cap KeySet(Result) :
                  DictGet(p, k) # DictGet(init.heap[init.ret], k)
           /\ KeySet(p) \ KeySet(Result) # {}
           /\ KeySet(Result) \ KeySet(p) # {}

\* C5: a store that initialise returns has exactly the keys of the mean
\* function, the kernel and the likelihood, plus the latent key for a
\* non-conjugate posterior only, in ascending order; on a conjugate or
\* spectral posterior initialise(model, n_data) ends as initialise(model)
C5_Initialise ==
    last.op = "initialise" =>
        /\ last.raised = "none" =>
               /\ KeySet(Result) =
                      ComponentKeys(gp) \cup
                          (IF gp.variant = "NonConjugatePosterior" THEN {Latent} ELSE {})
               /\ IsAscending(Result)
        /\ (IsConjugateOrSpectral(gp) /\ last.key = Absent /\ last.n_data # Absent) =>
               LET seedless == initialise(<<>>, Absent, gp, Absent)
               IN  /\ last.raised = seedless.raised
                   /\ last.raised = "none" => Result = seedless.heap[seedless.ret]

\* C5: initialise(model, n_data) on a conjugate posterior whose three
\* sub-models contribute their keys in descending order
C5_Witness ==
    /\ last.op = "initialise"
    /\ last.raised = "none"
    /\ gp.variant = "ConjugatePosterior"
    /\ last.n_data = PyInt(1)
    /\ KeySeq(gp.prior.kernel.params) = <<KeyB>>
    /\ KeySeq(gp.prior.mean_function.params) = <<KeyAB>>
    /\ KeySeq(gp.likelihood.params) = <<KeyA>>

\* the latent block of the store just returned is k rows of one zero, and
\* the keys of the kernel, the mean function and the likelihood are present
HasLatentBlock ==
    /\ last.raised = "none"
    /\ HasKey(Result, Latent)
    /\ LET block == DictGet(Result, Latent)
       IN  /\ block.shape = <<last.n_data.val, 1>>
           /\ Len(block.data) = last.n_data.val
           /\ \A i \in 1..Len(block.data) : block.data[i] = 0
    /\ ComponentKeys(gp) \subseteq KeySet(Result)

\* initialise(model, k) was called on a non-conjugate posterior
NonConjugateWithNData ==
    /\ last.op = "initialise"
    /\ gp.variant = "NonConjugatePosterior"
    /\ last.key = Absent
    /\ last.n_data.type = "int"

C7_NoMatchingInitializer ==
    /\ (/\ last.op = "initialise"
        /\ gp.variant = "NonConjugatePosterior"
        /\ last.n_data = Absent) =>
           /\ last.raised = "NotImplementedError"
           /\ last.ret = 0
    /\ (/\ last.op = "complete"
        /\ gp.variant = "NonConjugatePosterior"
        /\ last.n_data = None) =>
           /\ last.raised = "NotImplementedError"
           /\ last.ret = 0
           /\ heap[arg] = last.pre[1]

\* C7: complete without n_data on a non-conjugate posterior, with params
\* that name a key of the model
C7_Witness ==
    /\ last.op = "complete"
    /\ gp.variant = "NonConjugatePosterior"
    /\ last.n_data = None
    /\ KeySet(last.pre[1]) \cap ComponentKeys(gp) # {}

====
